---- MODULE Spec2Model ----
(***************************************************************************)
(* A model of the vibb page server: the path-to-page resolver              *)
(* (findPageWithParams), the configuration pipelines (fetchData on GET,    *)
(* handlePost on POST), the strategy dispatchers and the two request       *)
(* flows (renderPage, handlePostRequest).                                  *)
(*                                                                         *)
(* Strings that the code only compares are TLA+ strings.  A path string    *)
(* is the sequence of the pieces between its "/" characters, so that       *)
(* "./pages/a/index.html" is <<".", "pages", "a", "index.html">> and the   *)
(* empty request path is <<"">>.                                           *)
(***************************************************************************)
EXTENDS Integers, Sequences, FiniteSets, TLC

VARIABLES
    fs,       \* the file system below the working directory
    listing,  \* the order in which Deno.readDir yields entry names
    req,      \* one record per request (or direct call) in flight
    templates, \* render_page.js: templatesLoaded and the registered partials
    db         \* sqlite_strategy.js: the connection held by the module

vars == <<fs, listing, req, templates, db>>

(***************************************************************************)
(* Bounds of the model.                                                    *)
(***************************************************************************)
MaxPages == 2      \* page directories in a page tree
MaxPathLen == 2    \* "/"-separated pieces of a request path
MaxOps == 2        \* operations in a list under the reserved key

(***************************************************************************)
(* Names.                                                                  *)
(***************************************************************************)
IndexHtml == "index.html"
PostYaml == "post.yaml"
GetYaml == "get.yaml"

\* Names a directory below ./pages may have.  A directory may be called
\* index.html: nothing in the code forbids it.
DirNames == {"a", "[p]", "[q]", IndexHtml}

\* Pieces a request path is made of.
PathPieces == {"a", "v", "[p]", IndexHtml, "..", ""}

\* The characters of the names the code looks into.
Chars(s) ==
    CASE s = "a" -> <<"a">>
      [] s = "v" -> <<"v">>
      [] s = "p" -> <<"p">>
      [] s = "q" -> <<"q">>
      [] s = "[p]" -> <<"[", "p", "]">>
      [] s = "[q]" -> <<"[", "q", "]">>
      [] s = ".." -> <<".", ".">>
      [] s = "" -> <<>>
      [] s = IndexHtml -> <<"i", "n", "d", "e", "x", ".", "h", "t", "m", "l">>
      [] s = PostYaml -> <<"p", "o", "s", "t", ".", "y", "a", "m", "l">>
      [] s = GetYaml -> <<"g", "e", "t", ".", "y", "a", "m", "l">>

KnownStrings == {"a", "v", "p", "q", "[p]", "[q]", "..", "", IndexHtml, PostYaml, GetYaml}

StrOf(cs) == CHOOSE s \in KnownStrings : Chars(s) = cs

\* String.prototype.startsWith / endsWith with a one-character argument.
StartsWith(s, c) == Len(Chars(s)) >= 1 /\ Chars(s)[1] = c
EndsWith(s, c) == Len(Chars(s)) >= 1 /\ Chars(s)[Len(Chars(s))] = c
\* s.slice(1, -1)
SliceInner(s) ==
    LET cs == Chars(s)
    IN  IF Len(cs) <= 2 THEN "" ELSE StrOf(SubSeq(cs, 2, Len(cs) - 1))

Front(s) == SubSeq(s, 1, Len(s) - 1)
Last(s) == s[Len(s)]

(***************************************************************************)
(* The file system.  A node is the sequence of names from the working      *)
(* directory; fs.dirs are the directories and fs.files the regular files.  *)
(***************************************************************************)
Cwd == <<>>
PagesRoot == <<"pages">>
NoNode == <<"?">>

RECURSIVE Walk(_, _, _)
\* Path resolution by the operating system: every piece but the last must
\* lead to a directory; "" and "." stay, ".." goes to the parent.
Walk(f, node, pieces) ==
    IF pieces = <<>> THEN node
    ELSE IF node \notin f.dirs THEN NoNode
    ELSE LET s == Head(pieces)
         IN  IF s = "" \/ s = "." THEN Walk(f, node, Tail(pieces))
             ELSE IF s = ".."
                  THEN IF node = Cwd THEN NoNode
                       ELSE Walk(f, Front(node), Tail(pieces))
             ELSE IF Append(node, s) \in f.dirs \cup f.files
                  THEN Walk(f, Append(node, s), Tail(pieces))
                  ELSE NoNode

\* Deno.stat(p) succeeds: p names an existing file or directory.  (q is the
\* value of p, worked out once.)
Stat(f, p) == \E q \in {p} : Walk(f, Cwd, q) # NoNode

\* Deno.readTextFile(p) succeeds: p names a regular file.
IsFile(f, p) == \E q \in {p} : Walk(f, Cwd, q) \in f.files

ReadDirFails == <<[name |-> "?", isDirectory |-> FALSE]>>

\* Deno.readDir(p): the entries of directory p in listing order, or a failure.
ReadDir(f, ord, p) ==
    LET d == Walk(f, Cwd, p)
        names == SelectSeq(ord, LAMBDA n : Append(d, n) \in f.dirs \cup f.files)
    IN  IF d \notin f.dirs THEN ReadDirFails
        ELSE [i \in 1..Len(names) |->
                [name |-> names[i], isDirectory |-> Append(d, names[i]) \in f.dirs]]

(***************************************************************************)
(* findPageWithParams (fetch_page.js).                                     *)
(***************************************************************************)
NoParams == [k \in {} |-> ""]
NoMatch == [found |-> FALSE]
PageMatch(pagePath, params) == [found |-> TRUE, pagePath |-> pagePath, params |-> params]

\* A faulty variant: { [paramName]: segment }, the
\* bindings made higher up are forgotten.
WithParamOnly(params, paramName, segment) ==
    [k \in {paramName} |-> segment]

\* { ...params, [paramName]: segment }
WithParam(params, paramName, segment) ==
    [k \in DOMAIN params \cup {paramName} |->
        IF k = paramName THEN segment ELSE params[k]]

RECURSIVE searchPath(_, _, _, _, _)
RECURSIVE searchEntries(_, _, _, _, _, _, _)

\* The for-await loop of searchPath over the entries still to be visited.
searchEntries(f, ord, entries, segment, remainingSegments, currentPath, params) ==
    IF entries = <<>> THEN NoMatch
    ELSE LET entry == Head(entries)
             rest == Tail(entries)
         IN  IF ~entry.isDirectory
             THEN searchEntries(f, ord, rest, segment, remainingSegments, currentPath, params)
             ELSE IF entry.name = segment
             THEN LET result == searchPath(f, ord, remainingSegments,
                                           Append(currentPath, segment), params)
                  IN  IF result.found THEN result
                      ELSE searchEntries(f, ord, rest, segment, remainingSegments,
                                         currentPath, params)
             ELSE IF StartsWith(entry.name, "[") /\ EndsWith(entry.name, "]")
             THEN LET paramName == SliceInner(entry.name)
                      result == searchPath(f, ord, remainingSegments,
                                           Append(currentPath, entry.name),
                                           WithParam(params, paramName, segment))
                  IN  IF result.found THEN result
                      ELSE searchEntries(f, ord, rest, segment, remainingSegments,
                                         currentPath, params)
             ELSE searchEntries(f, ord, rest, segment, remainingSegments, currentPath, params)

searchPath(f, ord, segments, currentPath, params) ==
    IF segments = <<>>
    THEN LET indexPath == Append(currentPath, IndexHtml)
         IN  IF Stat(f, indexPath) THEN PageMatch(indexPath, params) ELSE NoMatch
    ELSE LET entries == ReadDir(f, ord, currentPath)
         IN  IF entries = ReadDirFails THEN NoMatch
             ELSE searchEntries(f, ord, entries, Head(segments), Tail(segments),
                                currentPath, params)

\* `./pages/${path}/index.html`
ExactPath(path) == <<".", "pages">> \o path \o <<IndexHtml>>

\* path.split("/").filter(Boolean)
PathSegments(path) == SelectSeq(path, LAMBDA s : s # "")

\* A faulty variant: no exact-match fast path.
findPageNoFastPath(f, ord, path) ==
    searchPath(f, ord, PathSegments(path), <<".", "pages">>, NoParams)

findPageWithParams(f, ord, path) ==
    IF Stat(f, ExactPath(path))
    THEN PageMatch(ExactPath(path), NoParams)
    ELSE searchPath(f, ord, PathSegments(path), <<".", "pages">>, NoParams)

(***************************************************************************)
(* JavaScript values.                                                      *)
(***************************************************************************)
Undefined == [t |-> "undefined"]
Null == [t |-> "null"]
Bool(b) == [t |-> "bool", b |-> b]
Num(n) == [t |-> "num", n |-> n]
Str(s) == [t |-> "str", s |-> s]
List(l) == [t |-> "list", l |-> l]
\* An object with own enumerable properties m (a function from keys).
Obj(m) == [t |-> "object", m |-> m]
\* The defined value that the handler of operation i resolved with.
HandlerResult(i) == [t |-> "result", of |-> i]

NoProps == [k \in {} |-> Null]
EmptyObj == Obj(NoProps)

\* ToBoolean
Truthy(v) ==
    ~ \/ v.t \in {"undefined", "null"}
      \/ (v.t = "bool" /\ ~v.b)
      \/ (v.t = "num" /\ v.n = 0)
      \/ (v.t = "str" /\ v.s = "")

\* v.k for a v that is neither null nor undefined (own properties only).
Get(v, k) == IF v.t = "object" /\ k \in DOMAIN v.m THEN v.m[k] ELSE Undefined

\* Array index i (from 1) as a property key.
IndexKey(i) == CASE i = 1 -> "0" [] i = 2 -> "1" [] i = 3 -> "2" [] i = 4 -> "3"
                 [] i = 5 -> "4" [] i = 6 -> "5" [] i = 7 -> "6" [] i = 8 -> "7"
                 [] i = 9 -> "8" [] i = 10 -> "9"

\* The own enumerable properties that {...v} copies.
Spread(v) ==
    CASE v.t = "object" -> v.m
      [] v.t = "str" ->
            LET cs == Chars(v.s)
            IN  [k \in {IndexKey(i) : i \in 1..Len(cs)} |->
                    Str(cs[CHOOSE i \in 1..Len(cs) : IndexKey(i) = k])]
      [] v.t = "list" ->
            [k \in {IndexKey(i) : i \in 1..Len(v.l)} |->
                v.l[CHOOSE i \in 1..Len(v.l) : IndexKey(i) = k]]
      [] OTHER -> NoProps

\* { ...a, ...b }: b wins on a key collision.
Override(a, b) ==
    [k \in DOMAIN a \cup DOMAIN b |-> IF k \in DOMAIN b THEN b[k] ELSE a[k]]

\* const { [key]: _, ...rest } = m
Without(m, key) == [k \in DOMAIN m \ {key} |-> m[k]]

\* A params or query map as a JavaScript object of strings.
StrObj(f) == Obj([k \in DOMAIN f |-> Str(f[k])])

\* The name a value has when it is used as a property key.
PropertyKey(v) ==
    CASE v.t = "str" -> v.s
      [] v.t = "undefined" -> "undefined"
      [] v.t = "null" -> "null"
      [] OTHER -> "[object]"

(***************************************************************************)
(* Configuration documents.  The text of a document is given by its        *)
(* syntax: a form and, for a top-level mapping, its entries `key: value`.  *)
(* A value is a plain scalar (by its source text), a template reference    *)
(* {{ns.name}}, an operation (a block mapping of `type` / `key` scalars)   *)
(* or a block sequence of operations.                                      *)
(***************************************************************************)
NoText == [form |-> "null"]              \* no document (null)
EmptyText == [form |-> "empty"]          \* the empty string
BadTemplate == [form |-> "badTemplate"]  \* text Handlebars rejects, e.g. "{{#if x}}"
BadYaml == [form |-> "badYaml"]          \* text the YAML parser rejects
BlankYaml == [form |-> "blank"]          \* only comments: the document is null
ScalarYaml(src) == [form |-> "scalar", src |-> src]
Mapping(entries) == [form |-> "mapping", entries |-> entries]

Entry(key, value) == [key |-> key, value |-> value]
Scalar(src) == [s |-> "scalar", src |-> src]
Ref(ns, name) == [s |-> "ref", ns |-> ns, name |-> name]
OpValue(op) == [s |-> "op", op |-> op]
OpList(ops) == [s |-> "ops", ops |-> ops]
\* An item `- ~` of a block sequence.
NullItem == [nullItem |-> TRUE]
\* An item `- a` of a block sequence: a string.
ScalarItem == [scalarItem |-> "a"]

\* !yamlContent
NoContent(text) == text.form \in {"null", "empty"}

\* What {{ns.name}} expands to: the string found in the context, else "".
RefText(ctx, ns, name) ==
    IF /\ ns \in DOMAIN ctx
       /\ ctx[ns].t = "object"
       /\ name \in DOMAIN ctx[ns].m
       /\ ctx[ns].m[name].t = "str"
    THEN ctx[ns].m[name].s
    ELSE ""

Failed == [ok |-> FALSE]
Done(v) == [ok |-> TRUE, value |-> v]

\* handlebars.compile(text)(ctx): the expanded text, or a failure.
HandlebarsRun(text, ctx) ==
    IF text.form = "badTemplate" THEN Failed
    ELSE IF text.form # "mapping" THEN Done(text)
    ELSE Done(Mapping([i \in DOMAIN text.entries |->
            LET e == text.entries[i]
            IN  IF e.value.s = "ref"
                THEN Entry(e.key, Scalar(RefText(ctx, e.value.ns, e.value.name)))
                ELSE e]))

\* The value of a plain scalar of a YAML text.
YamlScalar(src) ==
    CASE src = "" -> Null
      [] src = "~" -> Null
      [] src = "false" -> Bool(FALSE)
      [] src = "true" -> Bool(TRUE)
      [] src = "0" -> Num(0)
      [] src = "''" -> Str("")
      [] OTHER -> Str(src)

YamlItem(op) ==
    IF op = NullItem THEN Null
    ELSE IF op = ScalarItem THEN Str(op.scalarItem)
    ELSE Obj([k \in DOMAIN op |-> YamlScalar(op[k])])

YamlValue(v) ==
    CASE v.s = "scalar" -> YamlScalar(v.src)
      [] v.s = "op" -> YamlItem(v.op)
      [] v.s = "ops" -> List([i \in DOMAIN v.ops |-> YamlItem(v.ops[i])])

\* parse(text): the document tree, or a failure (also on a duplicated key).
YamlParse(text) ==
    CASE text.form = "badYaml" -> Failed
      [] text.form = "blank" -> Done(Null)
      [] text.form = "scalar" -> Done(YamlScalar(text.src))
      [] text.form = "mapping" ->
            LET es == text.entries
            IN  IF \E i, j \in DOMAIN es : i # j /\ es[i].key = es[j].key
                THEN Failed
                ELSE Done(Obj([k \in {es[i].key : i \in DOMAIN es} |->
                            YamlValue(es[CHOOSE i \in DOMAIN es : es[i].key = k].value)]))

(***************************************************************************)
(* The strategy dispatcher (executeFetchStrategy, executeSendStrategy).    *)
(***************************************************************************)
\* Properties every object inherits from Object.prototype that are functions.
InheritedNames == {"toString", "constructor", "hasOwnProperty"}

\* dataStrategies[type], for the registry with the own keys `registry`.
LookupStrategy(registry, type) ==
    LET k == PropertyKey(type)
    IN  IF k \in registry THEN [kind |-> "own", name |-> k]
        ELSE IF k \in InheritedNames THEN [kind |-> "inherited", name |-> k]
        ELSE [kind |-> "none"]

\* How a call strategy(config, context) can end.
Returns(v) == [how |-> "return", value |-> v]
Throws == [how |-> "throw"]            \* throws an Error
ThrowsNull == [how |-> "throwNull"]    \* throws null: the value has no .message

\* A registered handler is an external collaborator: any of these.
OwnOutcomes(i) == {Returns(HandlerResult(i)), Returns(Null), Returns(Undefined),
                   Throws, ThrowsNull}

\* The inherited functions are called with `this` undefined.
InheritedOutcome(name, config) ==
    CASE name = "toString" -> Returns(Str("[object Undefined]"))
      [] name = "constructor" -> Returns(config)
      [] name = "hasOwnProperty" -> Throws

Outcomes(strategy, config, i) ==
    IF strategy.kind = "own" THEN OwnOutcomes(i)
    ELSE {InheritedOutcome(strategy.name, config)}

\* A faulty variant: every call opens a connection of its own.
getDatabaseAlwaysNew(d, opens) ==
    IF opens THEN [conn |-> d.created + 1, created |-> d.created + 1] ELSE d

\* getDatabase(): the module's connection, created by new DB("test.db") when
\* there is none.  opens: new DB succeeds (otherwise it throws and db stays
\* null).  Connections are numbered in the order of their creation, 0 is null.
getDatabase(d, opens) ==
    IF d.conn = 0
    THEN IF opens THEN [conn |-> d.created + 1, created |-> d.created + 1] ELSE d
    ELSE d

\* The handler registered as "sqlite" in server.js is sqliteStrategy.
IsSqlite(strategy) == strategy.kind = "own" /\ strategy.name = "sqlite"

\* How sqliteStrategy(config) ends, having got the connection conn (0: none,
\* getDatabase threw): the rows, the first row or null, or the error rethrown.
SqliteOutcomes(i, conn) ==
    IF conn = 0 THEN {Throws}
    ELSE {Returns(HandlerResult(i)), Returns(Null), Throws}

(***************************************************************************)
(* The configuration pipeline: fetchData (read) and handlePost (write).    *)
(* A request record q carries the call's arguments and locals.             *)
(***************************************************************************)
ReservedKey(q) == IF q.write THEN "send_data" ELSE "fetch_data"

\* { params, query } or { params, query, formData }
Context(q) ==
    IF q.write
    THEN [params |-> q.params, query |-> q.query, formData |-> q.formData]
    ELSE [params |-> q.params, query |-> q.query]

\* The message of the read flow or of the write flow.
Msg(q, read, write) == IF q.write THEN write ELSE read

Log(q, level, message) ==
    [q EXCEPT !.log = Append(@, [level |-> level, message |-> message])]

\* return data
Return(q, data) == [q EXCEPT !.data = data, !.pc = "pipelineDone"]

\* A faulty variant: the catch block lets the error go on to the caller.
CatchRethrows(q) == [q EXCEPT !.threw = TRUE, !.pc = "threw"]

\* The catch block of fetchData / handlePost.
Catch(q) ==
    Return(Log(q, "error", Msg(q, "YAML processing failed", "POST YAML processing failed")),
           Context(q))

\* The operations fetchDataStrategies / sendDataStrategies will dispatch.
OpsOf(config) ==
    CASE config.t = "list" -> config.l
      [] config.t = "object" -> <<config>>
      [] OTHER -> <<>>

\* fetchData / handlePost up to the first await.
PipelineEnter(q) ==
    IF NoContent(q.yamlContent) THEN Return(q, Context(q))
    ELSE
    LET q1 == Log(q, "info", Msg(q, "Processing YAML content", "Processing POST YAML content"))
        expanded == HandlebarsRun(q.yamlContent, Context(q))
    IN  IF ~expanded.ok THEN Catch(q1)
        ELSE
        LET q2 == Log(q1, "info", Msg(q, "Processed YAML template", "Processed POST YAML template"))
            parsed == YamlParse(expanded.value)
        IN  IF ~parsed.ok THEN Catch(q2)
            ELSE IF parsed.value.t \in {"null", "undefined"} THEN Catch(q2)
            ELSE
            LET yamlData == parsed.value
                q3 == Log(q2, "info", Msg(q, "Parsed YAML data", "Parsed POST YAML data"))
                reserved == Get(yamlData, ReservedKey(q))
            IN  IF Truthy(reserved)
                THEN [Log(q3, "info", Msg(q, "Fetching data using strategies",
                                             "Sending data using strategies")) EXCEPT
                         !.yamlData = yamlData,
                         !.ops = OpsOf(reserved),
                         !.opIndex = 1,
                         !.results = NoProps,
                         !.pc = "dispatch"]
                ELSE Return(Log(q3, "info", Msg(q, "No fetch_data found, returning parsed YAML",
                                                   "No send_data found, returning parsed YAML")),
                            Override(Spread(yamlData), Context(q)))

\* A faulty variant: a key that already has a result keeps it.
CollectKeepFirst(results, config, result) ==
    IF /\ Truthy(Get(config, "key"))
       /\ result # Undefined
       /\ PropertyKey(Get(config, "key")) \notin DOMAIN results
    THEN Override(results, PropertyKey(Get(config, "key")) :> result)
    ELSE results

\* if (config.key && result !== undefined) results[config.key] = result
Collect(results, config, result) ==
    IF Truthy(Get(config, "key")) /\ result # Undefined
    THEN Override(results, PropertyKey(Get(config, "key")) :> result)
    ELSE results

\* A faulty variant: the loop does not move on, the operation is dispatched again.
RetrySameOp(q, results) ==
    [q EXCEPT !.results = results, !.pc = "dispatch"]

NextOp(q, results) ==
    [q EXCEPT !.results = results, !.opIndex = @ + 1, !.pc = "dispatch"]

\* A faulty variant: a null entry is passed over like an unknown type.
DispatchOpSkipsNull(q) ==
    LET config == q.ops[q.opIndex]
    IN  IF config.t \in {"null", "undefined"}
        THEN NextOp(Log(q, "warn", Msg(q, "Unknown fetch strategy", "Unknown send strategy")),
                    q.results)
        ELSE
        LET type == Get(config, "type")
            strategy == LookupStrategy(q.dataStrategies, type)
        IN  IF strategy.kind = "none"
            THEN NextOp(Log(q, "warn", Msg(q, "Unknown fetch strategy", "Unknown send strategy")),
                        Collect(q.results, config, Undefined))
            ELSE [q EXCEPT !.pc = "awaiting",
                           !.calls = Append(@, [op |-> q.opIndex, type |-> PropertyKey(type)])]

\* executeFetchStrategy up to its await: `const { type } = config` raises on
\* null, then the lookup of the handler.
DispatchOp(q) ==
    LET config == q.ops[q.opIndex]
    IN  IF config.t \in {"null", "undefined"} THEN Catch(q)
        ELSE
        LET type == Get(config, "type")
            strategy == LookupStrategy(q.dataStrategies, type)
        IN  IF strategy.kind = "none"
            THEN NextOp(Log(q, "warn", Msg(q, "Unknown fetch strategy", "Unknown send strategy")),
                        Collect(q.results, config, Undefined))
            ELSE [q EXCEPT !.pc = "awaiting",
                           !.calls = Append(@, [op |-> q.opIndex, type |-> PropertyKey(type)])]

\* The operation at hand is dispatched to sqliteStrategy.
CallsSqlite(q) ==
    LET config == q.ops[q.opIndex]
    IN  /\ config.t \notin {"null", "undefined"}
        /\ IsSqlite(LookupStrategy(q.dataStrategies, Get(config, "type")))

\* The call of the handler ends with `outcome`.
SettleOp(q, outcome) ==
    LET config == q.ops[q.opIndex]
        q1 == [q EXCEPT !.settled = Append(@, [op |-> q.opIndex, outcome |-> outcome])]
    IN  CASE outcome.how = "return" ->
                NextOp(q1, Collect(q.results, config, outcome.value))
          [] outcome.how = "throw" ->
                NextOp(Log(q1, "error", Msg(q, "Strategy execution failed",
                                               "Send strategy execution failed")),
                       Collect(q.results, config, Undefined))
          [] outcome.how = "throwNull" -> Catch(q1)

\* A faulty variant: { params, query, ...restYamlData, ...results }.
MergeContextFirst(q) ==
    LET rest == Without(Spread(q.yamlData), ReservedKey(q))
        finalData == Override(Context(q), Override(rest, q.results))
    IN  Return(Log(q, "info", Msg(q, "Final data after fetch", "Final data after send")),
               finalData)

\* After the dispatch loop: strip the reserved key and merge.
MergeResults(q) ==
    LET rest == Without(Spread(q.yamlData), ReservedKey(q))
        finalData == Override(Override(rest, q.results), Context(q))
    IN  Return(Log(q, "info", Msg(q, "Final data after fetch", "Final data after send")),
               finalData)

(***************************************************************************)
(* handle_post.js: isPostAllowed, loadPostYaml, parseFormData and          *)
(* handlePostRequest.                                                      *)
(***************************************************************************)
\* pagePath.replace("/index.html", ""): String.prototype.replace with a
\* string pattern removes the first occurrence only.  (No name of the model
\* other than index.html itself begins with "index.html".)
PageDirOf(pagePath) ==
    LET hits == {i \in 2..Len(pagePath) : pagePath[i] = IndexHtml}
    IN  IF hits = {} THEN pagePath
        ELSE LET i == CHOOSE h \in hits : \A g \in hits : h <= g
             IN  SubSeq(pagePath, 1, i - 1) \o SubSeq(pagePath, i + 1, Len(pagePath))

isPostAllowed(f, pagePath) == Stat(f, Append(PageDirOf(pagePath), PostYaml))

\* Deno.readTextFile(p): the text, or a failure.
ReadTextFile(f, p) ==
    CHOOSE text \in {IF node \in f.files THEN Done(f.text[node]) ELSE Failed :
                        node \in {Walk(f, Cwd, q) : q \in {p}}} : TRUE

loadPostYaml(f, pagePath) ==
    LET text == ReadTextFile(f, Append(PageDirOf(pagePath), PostYaml))
    IN  IF text.ok THEN text.value ELSE NoText

\* Request bodies, by what the text is.
JsonBody(v) == [syntax |-> "json", value |-> v]
UrlEncodedBody(pairs) == [syntax |-> "urlencoded", pairs |-> pairs]
\* fields: name -> [file |-> FALSE, text] or [file |-> TRUE, filename, type]
MultipartBody(fields) == [syntax |-> "multipart", fields |-> fields]
GarbageBody == [syntax |-> "garbage"]
EmptyBody == [syntax |-> "empty"]

\* contentType?.includes(needle) for the content types of the model.
Includes(contentType, needle) ==
    \/ contentType = needle
    \/ contentType = "application/json; charset=utf-8" /\ needle = "application/json"

\* new URLSearchParams(body) read into an object.
UrlDecode(body) ==
    CASE body.syntax = "urlencoded" -> Obj([k \in DOMAIN body.pairs |-> Str(body.pairs[k])])
      [] body.syntax = "empty" -> EmptyObj
      [] OTHER -> Obj("(the raw text)" :> Str(""))

\* await req.formData() read into an object; it throws on a body that is
\* not well-formed multipart data.
MultipartDecode(body) ==
    IF body.syntax # "multipart" THEN Failed
    ELSE Done(Obj([k \in DOMAIN body.fields |->
            IF body.fields[k].file
            THEN Obj([filename |-> Str(body.fields[k].filename), type |-> Str(body.fields[k].type)])
            ELSE Str(body.fields[k].text)]))

\* parseFormData(req): the decoded value, or a failure when it throws.
parseFormData(contentType, body) ==
    IF Includes(contentType, "application/json")
    THEN IF body.syntax = "json" THEN Done(body.value) ELSE Done(EmptyObj)
    ELSE IF Includes(contentType, "application/x-www-form-urlencoded")
    THEN Done(UrlDecode(body))
    ELSE IF Includes(contentType, "multipart/form-data")
    THEN MultipartDecode(body)
    ELSE Done(EmptyObj)

\* new Response(text, { status })
TextResponse(status, text) == [status |-> status, kind |-> "text", text |-> text]
\* new Response(JSON.stringify(data), { headers: json }): properties whose
\* value is undefined are left out of the text.
JsonResponse(data) ==
    [status |-> 200, kind |-> "json",
     data |-> [k \in {j \in DOMAIN data : data[j] # Undefined} |-> data[k]]]
HtmlResponse(how) == [status |-> 200, kind |-> "html", text |-> how]
NoResponse == [status |-> 0, kind |-> "none"]

Respond(q, response) == [q EXCEPT !.response = response, !.pc = "responded"]

\* The call rejects: an exception leaves handlePostRequest.
Reject(q) == [q EXCEPT !.threw = TRUE, !.pc = "threw"]

\* handlePostRequest up to the page match.
PostResolveStep(f, ord, q) ==
    LET q1 == Log(q, "info", "Handling POST request for path")
        match == findPageWithParams(f, ord, q.path)
    IN  IF ~match.found
        THEN Respond(Log([q1 EXCEPT !.match = match], "warn", "Page not found for POST"),
                     TextResponse(404, "Page not found"))
        ELSE [q1 EXCEPT !.match = match, !.params = StrObj(match.params),
                        !.pc = "permission"]

\* A faulty variant: the body is decoded before the permission is checked.
PostPermissionAfterBody(f, q) ==
    LET q1 == Log([q EXCEPT !.bodyRead = TRUE], "info", "POST allowed check")
    IN  IF ~isPostAllowed(f, q.match.pagePath)
        THEN Respond(Log(q1, "warn", "POST not allowed for path"),
                     TextResponse(405, "Method not allowed"))
        ELSE [q1 EXCEPT !.pc = "parseForm"]

\* The permission check.
PostPermissionStep(f, q) ==
    LET q1 == Log(q, "info", "POST allowed check")
    IN  IF ~isPostAllowed(f, q.match.pagePath)
        THEN Respond(Log(q1, "warn", "POST not allowed for path"),
                     TextResponse(405, "Method not allowed"))
        ELSE [q1 EXCEPT !.pc = "parseForm"]

\* const formData = await parseFormData(req); Object.keys(formData)
PostParseFormStep(q) ==
    LET parsed == parseFormData(q.contentType, q.body)
    IN  IF ~parsed.ok THEN Reject([q EXCEPT !.bodyRead = TRUE])
        ELSE IF parsed.value.t \in {"null", "undefined"}
        THEN Reject([q EXCEPT !.bodyRead = TRUE, !.formData = parsed.value])
        ELSE [Log(q, "info", "Parsed form data") EXCEPT
                 !.bodyRead = TRUE, !.formData = parsed.value, !.pc = "loadYaml"]

\* A faulty variant: the query parameters of the URL are the pipeline's query.
PostLoadYamlWithUrlQuery(f, q) ==
    LET postYamlContent == loadPostYaml(f, q.match.pagePath)
        q1 == [q EXCEPT !.query = q.urlQuery, !.write = TRUE, !.configLoaded = TRUE]
    IN  IF ~NoContent(postYamlContent)
        THEN [q1 EXCEPT !.yamlContent = postYamlContent, !.pc = "pipeline"]
        ELSE Return(Log(q1, "warn", "No post.yaml found, but POST was allowed"),
                    Context(q1))

\* A faulty variant: a write-config that yields no text makes the call fail.
PostLoadYamlOrFail(f, q) ==
    LET postYamlContent == loadPostYaml(f, q.match.pagePath)
        q1 == [q EXCEPT !.query = EmptyObj, !.write = TRUE, !.configLoaded = TRUE]
    IN  IF ~NoContent(postYamlContent)
        THEN [q1 EXCEPT !.yamlContent = postYamlContent, !.pc = "pipeline"]
        ELSE Reject(q1)

\* const postYamlContent = await loadPostYaml(pagePath) and the branch on it.
PostLoadYamlStep(f, q) ==
    LET postYamlContent == loadPostYaml(f, q.match.pagePath)
        q1 == [q EXCEPT !.query = EmptyObj, !.write = TRUE, !.configLoaded = TRUE]
    IN  IF ~NoContent(postYamlContent)
        THEN [q1 EXCEPT !.yamlContent = postYamlContent, !.pc = "pipeline"]
        ELSE Return(Log(q1, "warn", "No post.yaml found, but POST was allowed"),
                    Context(q1))

PostRespondStep(q) == Respond(q, JsonResponse(q.data))

(***************************************************************************)
(* fetch_page.js: fetchPage; render_page.js: ensureTemplatesLoaded and     *)
(* renderPage.                                                             *)
(***************************************************************************)
\* Page contents.
PureHtml == [form |-> "pureHtml"]          \* begins with <!doctype html
PageTemplate == [form |-> "template"]
BadPageTemplate == [form |-> "badPageTemplate"]  \* Handlebars rejects it

LayoutFile == <<"templates", "layouts", "layout.hbs">>
LayoutText == [form |-> "layout"]
\* The text the files of the model hold unless said otherwise.
DefaultYaml == Mapping(<<Entry("title", Scalar("hello"))>>)

\* loadLayouts and loadPartials: the partials registered from ./templates.
LoadedPartials(f) == IF LayoutFile \in f.files THEN {"layout"} ELSE {}

\* fetchPage(path, log): q with the page result in found, pageContent,
\* yamlContent and params.
fetchPage(f, ord, q) ==
    LET q1 == Log(q, "info", "Fetching page for path")
        match == findPageWithParams(f, ord, q.path)
    IN  IF ~match.found
        THEN [Log(q1, "warn", "Page not found for path") EXCEPT !.match = match, !.found = FALSE]
        ELSE
        LET q2 == Log([q1 EXCEPT !.match = match], "info", "Found page with parameters")
            pageContent == ReadTextFile(f, match.pagePath)
        IN  IF ~pageContent.ok
            THEN [Log(q2, "error", "Error fetching page") EXCEPT !.found = FALSE]
            ELSE
            LET q3 == Log(q2, "info", "Loaded page content")
                yaml == ReadTextFile(f, Append(PageDirOf(match.pagePath), GetYaml))
            IN  [Log(q3, "info", IF yaml.ok THEN "Found YAML data" ELSE "No YAML data found")
                    EXCEPT !.found = TRUE,
                           !.pageContent = pageContent.value,
                           !.yamlContent = IF yaml.ok THEN yaml.value ELSE NoText,
                           !.params = StrObj(match.params)]

\* renderPage from the page result to the call of fetchData.
RenderFetchPageStep(f, ord, q) ==
    LET q1 == fetchPage(f, ord, Log(q, "info", "Rendering page for path"))
    IN  IF ~q1.found
        THEN Respond(Log(q1, "warn", "Page not found for path"),
                     TextResponse(404, "Page not found"))
        ELSE IF ~NoContent(q1.yamlContent)
        THEN [q1 EXCEPT !.pc = "pipeline"]
        ELSE Return(Log(q1, "info", "No YAML data found, serving with parameters and query only"),
                    Context(q1))

\* renderPage after the data is there; the catch block answers 500.
RenderRespondStep(partials, q) ==
    IF q.pageContent.form = "pureHtml"
    THEN Respond(Log(q, "info", "Serving pure HTML file directly"), HtmlResponse("verbatim"))
    ELSE
    LET q1 == Log(q, "info", "Rendering with layout")
    IN  IF q.pageContent.form = "badPageTemplate" \/ "layout" \notin partials
        THEN Respond(Log(q1, "error", "Error rendering page"),
                     TextResponse(500, "Internal server error"))
        ELSE Respond(q1, HtmlResponse("rendered"))

(***************************************************************************)
(* Page trees and request paths of the model.                              *)
(***************************************************************************)
RECURSIVE SeqsUpTo(_, _)
SeqsUpTo(S, n) ==
    IF n = 0 THEN {<<>>}
    ELSE LET shorter == SeqsUpTo(S, n - 1)
         IN  shorter \cup {Append(s, x) : s \in {t \in shorter : Len(t) = n - 1}, x \in S}

\* Directories below ./pages that may hold a page, by their names from the
\* root: every chain of at most two ordinary or bracket names, and the
\* chains through a directory called index.html.
PageDirs ==
    SeqsUpTo(DirNames \ {IndexHtml}, 2)
        \cup {<<IndexHtml>>, <<IndexHtml, "a">>, <<"a", IndexHtml>>}

Prefixes(s) == {SubSeq(s, 1, k) : k \in 0..Len(s)}

\* The directories of the tree whose pages are in P (paths below ./pages).
TreeDirs(P) == {Cwd, PagesRoot} \cup {PagesRoot \o q : q \in UNION {Prefixes(c) : c \in P}}

\* The tree holding a content file in each directory of P, a write-config in
\* each directory of W, a read-config in each of G, and, with `outside`, a
\* file index.html in the working directory itself (outside the page root).
\* A name taken by a directory cannot also be a file.
Tree(P, W, G, outside) ==
    LET dirs == TreeDirs(P)
        wanted == {PagesRoot \o c \o <<IndexHtml>> : c \in P}
                  \cup {PagesRoot \o c \o <<PostYaml>> : c \in W}
                  \cup {PagesRoot \o c \o <<GetYaml>> : c \in G}
                  \cup (IF outside THEN {<<IndexHtml>>} ELSE {})
        files == wanted \ dirs
    IN  [dirs |-> dirs, files |-> files,
         text |-> [n \in files |-> IF Last(n) = IndexHtml THEN PageTemplate
                                                          ELSE DefaultYaml]]

\* The tree f with `text` as the text of the file `node`.
WithText(f, node, text) ==
    [f EXCEPT !.text = [n \in DOMAIN @ |-> IF n = node THEN text ELSE @[n]]]

\* The tree f with the layout ./templates/layouts/layout.hbs.
WithLayout(f) ==
    [dirs |-> f.dirs \cup {<<"templates">>, <<"templates", "layouts">>},
     files |-> f.files \cup {LayoutFile},
     text |-> [n \in f.files \cup {LayoutFile} |->
                 IF n = LayoutFile THEN LayoutText ELSE f.text[n]]]

RequestPaths == SeqsUpTo(PathPieces, MaxPathLen) \ {<<>>}

Reverse(s) == [i \in 1..Len(s) |-> s[Len(s) + 1 - i]]

\* Directory listings: orders of the entry names in which every two names
\* come both ways round.
ListingOrders ==
    LET o1 == <<"a", "[p]", "[q]", IndexHtml, PostYaml, GetYaml>>
        o2 == <<"[q]", "a", "[p]", IndexHtml, GetYaml, PostYaml>>
    IN  {o1, Reverse(o1), o2, Reverse(o2)}

(***************************************************************************)
(* Requests and direct calls.                                              *)
(***************************************************************************)
Requests == {"r1"}

IdleReq ==
    [kind |-> "idle", pc |-> "idle", path |-> <<"">>, match |-> NoMatch,
     write |-> FALSE, params |-> EmptyObj, query |-> EmptyObj, formData |-> Undefined,
     contentType |-> "none", body |-> EmptyBody, bodyRead |-> FALSE,
     configLoaded |-> FALSE, found |-> FALSE,
     pageContent |-> NoText, yamlContent |-> NoText,
     dataStrategies |-> {}, yamlData |-> Undefined,
     ops |-> <<>>, opIndex |-> 1, results |-> NoProps, calls |-> <<>>,
     settled |-> <<>>, conns |-> <<>>, hangs |-> {}, urlQuery |-> EmptyObj, again |-> NoMatch,
     data |-> NoProps, log |-> <<>>, response |-> NoResponse, threw |-> FALSE]

\* A direct call of findPageWithParams(path).
FindPageCall(r) ==
    /\ req[r].kind = "findPage"
    /\ req[r].pc = "call"
    /\ req' = [req EXCEPT ![r].match = findPageWithParams(fs, listing, req[r].path),
                          ![r].pc = "returned"]
    /\ UNCHANGED <<fs, listing, templates, db>>

\* A faulty variant: a later read of the directories yields the reverse order.
ListingReversed(ord) == Reverse(ord)

\* The order Deno.readDir yields on a later read of an unchanged directory:
\* the same order.
ListingAgain(ord) == ord

\* A second call of findPageWithParams(path), with the page tree unchanged.
FindPageAgain(r) ==
    /\ req[r].kind = "findPage"
    /\ req[r].pc = "returned"
    /\ req' = [req EXCEPT ![r].again = findPageWithParams(fs, ListingAgain(listing),
                                                          req[r].path),
                          ![r].pc = "returnedAgain"]
    /\ UNCHANGED <<fs, listing, templates, db>>

\* fetchData / handlePost from the call to the first await (or the return).
PipelineStart(r) ==
    /\ req[r].pc = "pipeline"
    /\ req' = [req EXCEPT ![r] = PipelineEnter(req[r])]
    /\ UNCHANGED <<fs, listing, templates, db>>

\* The dispatcher looks the next operation's handler up and calls it.
\* sqliteStrategy has no await: its call of getDatabase and its query run
\* within the call of the handler.
Dispatch(r) ==
    /\ req[r].pc = "dispatch"
    /\ req[r].opIndex <= Len(req[r].ops)
    /\ IF CallsSqlite(req[r])
       THEN \E opens \in BOOLEAN :
               /\ db' = getDatabase(db, opens)
               /\ req' = [req EXCEPT ![r] = [DispatchOp(req[r]) EXCEPT
                                               !.conns = Append(@, db'.conn)]]
       ELSE /\ req' = [req EXCEPT ![r] = DispatchOp(req[r])]
            /\ UNCHANGED db
    /\ UNCHANGED <<fs, listing, templates>>

\* A faulty variant: while one awaited call hangs, no awaited call settles.
MaySettleNoneHangs(rq, r) ==
    \A o \in DOMAIN rq : ~(rq[o].pc = "awaiting" /\ rq[o].opIndex \in rq[o].hangs)

\* await strategy(config, context) suspends the one request; the call
\* settles unless the backend of this operation of this request hangs.
MaySettle(rq, r) == rq[r].opIndex \notin rq[r].hangs

\* The awaited handler call ends.
Settle(r) ==
    /\ req[r].pc = "awaiting"
    /\ MaySettle(req, r)
    /\ LET q == req[r]
           config == q.ops[q.opIndex]
           strategy == LookupStrategy(q.dataStrategies, Get(config, "type"))
       IN  \E outcome \in (IF IsSqlite(strategy)
                            THEN SqliteOutcomes(q.opIndex, Last(q.conns))
                            ELSE Outcomes(strategy, config, q.opIndex)) :
               req' = [req EXCEPT ![r] = SettleOp(q, outcome)]
    /\ UNCHANGED <<fs, listing, templates, db>>

\* All operations are done: the merge and the return.
Merge(r) ==
    /\ req[r].pc = "dispatch"
    /\ req[r].opIndex > Len(req[r].ops)
    /\ req' = [req EXCEPT ![r] = MergeResults(req[r])]
    /\ UNCHANGED <<fs, listing, templates, db>>

PostResolve(r) ==
    /\ req[r].kind = "POST"
    /\ req[r].pc = "call"
    /\ req' = [req EXCEPT ![r] = PostResolveStep(fs, listing, req[r])]
    /\ UNCHANGED <<fs, listing, templates, db>>

PostPermission(r) ==
    /\ req[r].kind = "POST"
    /\ req[r].pc = "permission"
    /\ req' = [req EXCEPT ![r] = PostPermissionStep(fs, req[r])]
    /\ UNCHANGED <<fs, listing, templates, db>>

PostParseForm(r) ==
    /\ req[r].kind = "POST"
    /\ req[r].pc = "parseForm"
    /\ req' = [req EXCEPT ![r] = PostParseFormStep(req[r])]
    /\ UNCHANGED <<fs, listing, templates, db>>

PostLoadYaml(r) ==
    /\ req[r].kind = "POST"
    /\ req[r].pc = "loadYaml"
    /\ req' = [req EXCEPT ![r] = PostLoadYamlStep(fs, req[r])]
    /\ UNCHANGED <<fs, listing, templates, db>>

\* The file system moves on while handlePostRequest is between its awaits of
\* isPostAllowed and loadPostYaml: the write-config of the page is removed.
RemoveWriteConfig(r) ==
    /\ req[r].kind = "POST"
    /\ req[r].pc \in {"parseForm", "loadYaml"}
    /\ LET node == Walk(fs, Cwd, Append(PageDirOf(req[r].match.pagePath), PostYaml))
       IN  /\ node \in fs.files
           /\ fs' = [dirs |-> fs.dirs, files |-> fs.files \ {node},
                     text |-> [n \in fs.files \ {node} |-> fs.text[n]]]
    /\ UNCHANGED <<listing, req, templates, db>>

PostRespond(r) ==
    /\ req[r].kind = "POST"
    /\ req[r].pc = "pipelineDone"
    /\ req' = [req EXCEPT ![r] = PostRespondStep(req[r])]
    /\ UNCHANGED <<fs, listing, templates, db>>

\* A faulty variant: the flag is set when the load starts.
StartLoadFlagFirst(t) == [t EXCEPT !.started = @ + 1, !.loaded = TRUE]

\* ensureTemplatesLoaded with the flag unset: the load starts, the flag stays
\* unset until both loaders are done.
StartLoad(t) == [t EXCEPT !.started = @ + 1]

\* await ensureTemplatesLoaded(), to its first await: the flag is read, and
\* with the flag unset loadLayouts is called.
RenderEnsureTemplates(r) ==
    /\ req[r].kind = "GET"
    /\ req[r].pc = "call"
    /\ IF templates.loaded
       THEN /\ req' = [req EXCEPT ![r].pc = "fetchPage"]
            /\ UNCHANGED templates
       ELSE /\ req' = [req EXCEPT ![r].pc = "loadLayouts"]
            /\ templates' = StartLoad(templates)
    /\ UNCHANGED <<fs, listing, db>>

\* await loadLayouts() is over: the layouts are registered, loadPartials is
\* called.
RenderLoadLayouts(r) ==
    /\ req[r].kind = "GET"
    /\ req[r].pc = "loadLayouts"
    /\ templates' = [templates EXCEPT !.partials = @ \cup LoadedPartials(fs)]
    /\ req' = [req EXCEPT ![r].pc = "loadPartials"]
    /\ UNCHANGED <<fs, listing, db>>

\* await loadPartials() is over: templatesLoaded = true, and the request
\* goes on.
RenderLoadPartials(r) ==
    /\ req[r].kind = "GET"
    /\ req[r].pc = "loadPartials"
    /\ templates' = [templates EXCEPT !.loaded = TRUE, !.finished = @ + 1]
    /\ req' = [req EXCEPT ![r].pc = "fetchPage"]
    /\ UNCHANGED <<fs, listing, db>>

RenderFetchPage(r) ==
    /\ req[r].kind = "GET"
    /\ req[r].pc = "fetchPage"
    /\ req' = [req EXCEPT ![r] = RenderFetchPageStep(fs, listing, req[r])]
    /\ UNCHANGED <<fs, listing, templates, db>>

RenderRespond(r) ==
    /\ req[r].kind = "GET"
    /\ req[r].pc = "pipelineDone"
    /\ req' = [req EXCEPT ![r] = RenderRespondStep(templates.partials, req[r])]
    /\ UNCHANGED <<fs, listing, templates, db>>

\* No load has started: templatesLoaded = false, nothing registered.  started
\* and finished count the loads begun and the loads completed.
NoTemplates == [loaded |-> FALSE, partials |-> {}, started |-> 0, finished |-> 0]

\* let db = null, and no connection created so far.
NoDb == [conn |-> 0, created |-> 0]

(***************************************************************************)
(* The resolver on its own: every small page tree, listing and path.       *)
(***************************************************************************)
InitResolve ==
    /\ \E P \in {Q \in SUBSET PageDirs : Cardinality(Q) <= MaxPages}, outside \in BOOLEAN :
          fs = Tree(P, {}, {}, outside)
    /\ listing \in ListingOrders
    /\ templates = NoTemplates
    /\ db = NoDb
    /\ \E path \in RequestPaths :
          req = [r \in Requests |-> [IdleReq EXCEPT !.kind = "findPage", !.pc = "call",
                                                    !.path = path]]

NextResolve == \E r \in Requests : FindPageCall(r)

SpecResolve == InitResolve /\ [][NextResolve]_vars

(***************************************************************************)
(* The pipelines on their own: direct calls of fetchData and handlePost.   *)
(***************************************************************************)
RegistryNames == {"request", "sqlite"}
Registries == {{}, RegistryNames}

OpTypes == {"request", "nosuch", "toString", "constructor", "hasOwnProperty"}
OpKeys == {"k", "params"}
\* Operations: `type` with or without `key`.
Operations ==
    {[type |-> t, key |-> k] : t \in OpTypes, k \in OpKeys} \cup {[type |-> t] : t \in OpTypes}

\* Scalars that are falsy once parsed, and one that is not.
FalsyScalars == {"false", "0", "''", "~", ""}
ReservedValues ==
    {Scalar(s) : s \in FalsyScalars \cup {"yes"}} \cup {OpValue(op) : op \in Operations}

FieldEntries ==
    {Entry(k, v) : k \in {"title", "k", "params", "formData"},
                   v \in {Scalar("hello"), Ref("params", "p")}}
ReservedEntries == {Entry(k, v) : k \in {"fetch_data", "send_data"}, v \in ReservedValues}

\* Document texts by shape.
ShapeDocs ==
    {NoText, EmptyText, BadTemplate, BadYaml, BlankYaml, ScalarYaml("a"), ScalarYaml("0")}
        \cup {Mapping(es) : es \in SeqsUpTo(FieldEntries \cup ReservedEntries, 2) \ {<<>>}}

\* Documents whose reserved key holds a list of operations.
ListDocs(reservedKey) ==
    {Mapping(<<Entry("title", Scalar("hello")), Entry(reservedKey, OpList(l))>>) :
        l \in SeqsUpTo(Operations \cup {NullItem, ScalarItem}, MaxOps)}

ParamsP == StrObj([p |-> "v"])
QueryQ == StrObj([q |-> "v"])
FormN == Obj([n |-> Str("v")])

\* A direct call fetchData({...}) or handlePost({...}).
PipelineCall(write, text, params, query, registry) ==
    [IdleReq EXCEPT !.kind = IF write THEN "handlePost" ELSE "fetchData",
                    !.pc = "pipeline",
                    !.write = write,
                    !.yamlContent = text,
                    !.params = params,
                    !.query = query,
                    !.formData = IF write THEN FormN ELSE Undefined,
                    !.dataStrategies = registry]

InitPipeline ==
    /\ fs = Tree({}, {}, {}, FALSE)
    /\ listing \in {CHOOSE o \in ListingOrders : TRUE}
    /\ templates = NoTemplates
    /\ db = NoDb
    /\ \E write \in BOOLEAN, registry \in Registries :
          \/ \E text \in ShapeDocs, params \in {EmptyObj, ParamsP} :
                req = [r \in Requests |->
                         PipelineCall(write, text, params, QueryQ, registry)]
          \/ \E text \in ListDocs(IF write THEN "send_data" ELSE "fetch_data") :
                req = [r \in Requests |->
                         PipelineCall(write, text, ParamsP, QueryQ, registry)]

NextPipeline ==
    \E r \in Requests :
        \/ PipelineStart(r)
        \/ Dispatch(r)
        \/ Settle(r)
        \/ Merge(r)

SpecPipeline == InitPipeline /\ [][NextPipeline]_vars

(***************************************************************************)
(* Whole requests: renderPage (GET) and handlePostRequest (POST), with     *)
(* direct calls of the resolver on the same trees.                         *)
(***************************************************************************)
RoutePageDirs ==
    {<<>>, <<"a">>, <<"[p]">>, <<"a", "a">>, <<"a", "[p]">>, <<"[p]", "a">>,
     <<IndexHtml>>, <<IndexHtml, "a">>, <<"a", IndexHtml>>}
RoutePaths == {<<"">>} \cup (SeqsUpTo({"a", "v", "..", IndexHtml}, 2) \ {<<>>})

DefaultBody == JsonBody(FormN)

\* renderPage(path, query, log, dataStrategies)
GetRequest(path, query) ==
    [IdleReq EXCEPT !.kind = "GET", !.pc = "call", !.path = path, !.query = query,
                    !.urlQuery = query,
                    !.dataStrategies = RegistryNames]

\* handlePostRequest(path, req, log, dataStrategies)
PostRequest(path, contentType, body) ==
    [IdleReq EXCEPT !.kind = "POST", !.pc = "call", !.path = path,
                    !.contentType = contentType, !.body = body,
                    !.dataStrategies = RegistryNames]

\* server.js handler on a POST whose URL has the query parameters urlQuery:
\* the query is read from the URL but not handed to handlePostRequest.
PostRequestWithQuery(path, contentType, body, urlQuery) ==
    [PostRequest(path, contentType, body) EXCEPT !.urlQuery = urlQuery]

ContentTypes ==
    {"none", "application/json", "application/json; charset=utf-8",
     "application/x-www-form-urlencoded", "multipart/form-data", "text/plain"}

Bodies ==
    {EmptyBody, GarbageBody,
     JsonBody(FormN), JsonBody(EmptyObj), JsonBody(Null), JsonBody(Num(0)), JsonBody(Str("a")),
     JsonBody(List(<<>>)),
     UrlEncodedBody([n |-> "v"]),
     MultipartBody([n |-> [file |-> FALSE, text |-> "v"]]),
     MultipartBody([n |-> [file |-> TRUE, filename |-> "f.txt", type |-> "text/plain"]])}

\* The page a with both configs, for the requests that vary body and texts.
PageA == <<"pages", "a">>
TreeA(pageText, getText, postText, layout) ==
    LET t == WithText(WithText(WithText(Tree({<<"a">>}, {<<"a">>}, {<<"a">>}, FALSE),
                 PageA \o <<IndexHtml>>, pageText),
                 PageA \o <<GetYaml>>, getText),
                 PageA \o <<PostYaml>>, postText)
    IN  IF layout THEN WithLayout(t) ELSE t

RequestDocs(reservedKey) ==
    {NoText, EmptyText, BadTemplate, BadYaml, BlankYaml, ScalarYaml("a")}
        \cup {Mapping(<<Entry("title", Scalar("hello"))>>)}
        \cup {Mapping(<<Entry("title", Ref("params", "p")), Entry(reservedKey, v)>>) :
                v \in ReservedValues}

\* A write-config that expands {{query.q}} and has one operation.
QueryDoc ==
    Mapping(<<Entry("title", Ref("query", "q")),
              Entry("send_data", OpValue([type |-> "request", key |-> "k"]))>>)

\* Routing: trees, write-config places, listings and paths.
InitRouting ==
    /\ \E P \in {Q \in SUBSET RoutePageDirs : Cardinality(Q) <= MaxPages}, outside \in BOOLEAN :
          \E W \in {V \in SUBSET {d \in TreeDirs(P) : d # Cwd} : Cardinality(V) <= 1} :
              fs = WithLayout(Tree(P, {Tail(d) : d \in W}, {}, outside))
    /\ listing \in {o \in ListingOrders : o[1] = "a" \/ o[Len(o)] = "a"}
    /\ \E path \in RoutePaths :
          \/ req = [r \in Requests |-> [IdleReq EXCEPT !.kind = "findPage", !.pc = "call",
                                                       !.path = path]]
          \/ req = [r \in Requests |-> GetRequest(path, EmptyObj)]
          \/ req = [r \in Requests |-> PostRequest(path, "application/json", DefaultBody)]

\* POST to the page a: every body under every content type, every config text.
InitPosts ==
    /\ listing \in {CHOOSE o \in ListingOrders : TRUE}
    /\ \/ /\ fs = TreeA(PageTemplate, DefaultYaml, DefaultYaml, TRUE)
          /\ \E contentType \in ContentTypes, body \in Bodies :
                req = [r \in Requests |-> PostRequest(<<"a">>, contentType, body)]
       \/ /\ \E text \in RequestDocs("send_data") :
                fs = TreeA(PageTemplate, DefaultYaml, text, TRUE)
          /\ req = [r \in Requests |-> PostRequest(<<"a">>, "application/json", DefaultBody)]
       \/ /\ fs = TreeA(PageTemplate, DefaultYaml, QueryDoc, TRUE)
          /\ \E urlQuery \in {EmptyObj, QueryQ} :
                req = [r \in Requests |->
                         PostRequestWithQuery(<<"a">>, "application/json", DefaultBody, urlQuery)]
       \/ /\ fs = WithLayout(Tree({<<"a">>, <<"a", PostYaml>>}, {}, {}, FALSE))
          /\ req = [r \in Requests |-> PostRequest(<<"a">>, "application/json", DefaultBody)]

\* GET of the page a: every page content and read-config text, with and
\* without the layout.
InitGets ==
    /\ listing \in {CHOOSE o \in ListingOrders : TRUE}
    /\ \E pageText \in {PureHtml, PageTemplate, BadPageTemplate},
          text \in RequestDocs("fetch_data"), layout \in BOOLEAN :
          fs = TreeA(pageText, text, DefaultYaml, layout)
    /\ \E query \in {EmptyObj, QueryQ} :
          req = [r \in Requests |-> GetRequest(<<"a">>, query)]

\* Calls of the resolver on trees with several bracket-named directories at
\* one level, under every listing order.
BracketPageDirs ==
    {<<"a">>, <<"[p]">>, <<"[q]">>, <<"[p]", "a">>, <<"[q]", "a">>,
     <<"[p]", "[q]">>, <<"[q]", "[p]">>}

InitBrackets ==
    /\ \E P \in {Q \in SUBSET BracketPageDirs : Cardinality(Q) <= MaxPages} :
          fs = Tree(P, {}, {}, FALSE)
    /\ listing \in ListingOrders
    /\ \E path \in SeqsUpTo({"a", "v"}, 2) \ {<<>>} :
          req = [r \in Requests |-> [IdleReq EXCEPT !.kind = "findPage", !.pc = "call",
                                                       !.path = path]]

InitRequest ==
    /\ templates = NoTemplates
    /\ db = NoDb
    /\ \/ InitRouting
       \/ InitPosts
       \/ InitGets
       \/ InitBrackets

NextRequest ==
    \E r \in Requests :
        \/ FindPageCall(r)
        \/ FindPageAgain(r)
        \/ PostResolve(r)
        \/ PostPermission(r)
        \/ PostParseForm(r)
        \/ PostLoadYaml(r)
        \/ RemoveWriteConfig(r)
        \/ PostRespond(r)
        \/ RenderEnsureTemplates(r)
        \/ RenderLoadLayouts(r)
        \/ RenderLoadPartials(r)
        \/ RenderFetchPage(r)
        \/ RenderRespond(r)
        \/ PipelineStart(r)
        \/ Dispatch(r)
        \/ Settle(r)
        \/ Merge(r)

SpecRequest == InitRequest /\ [][NextRequest]_vars

(***************************************************************************)
(* Properties of the resolver.                                             *)
(***************************************************************************)
Returned(r) == req[r].kind = "findPage" /\ req[r].pc = "returned"

\* The node a returned pagePath denotes.
MatchNode(r) == Walk(fs, Cwd, req[r].match.pagePath)

\* A node strictly below the page root.
UnderPagesRoot(node) ==
    Len(node) > Len(PagesRoot) /\ SubSeq(node, 1, Len(PagesRoot)) = PagesRoot

\* The directory names of a pagePath "./pages/<names>/index.html".
ChainOf(pagePath) == SubSeq(pagePath, 3, Len(pagePath) - 1)

IsBracket(name) == StartsWith(name, "[") /\ EndsWith(name, "]")

\* C1: whatever the request path, also with ".." pieces, the pagePath that
\* findPageWithParams returns denotes a node inside the page root ./pages.
C1_PagePathInsideRoot ==
    \A r \in Requests :
        (Returned(r) /\ req[r].match.found) => UnderPagesRoot(MatchNode(r))

\* The content file of the directory obtained by joining the path segments
\* literally under the page root.
LiteralFile(path) == <<"pages">> \o PathSegments(path) \o <<IndexHtml>>

\* C3: exact match wins.  When the directory obtained by joining all path
\* segments literally under the page root holds a content file,
\* findPageWithParams returns that file with an empty params map, whatever
\* bracket directories exist and whatever the listing order is.
C3_ExactMatchWins ==
    \A r \in Requests :
        (Returned(r) /\ Walk(fs, Cwd, LiteralFile(req[r].path)) \in fs.files)
            => /\ req[r].match.found
               /\ MatchNode(r) = Walk(fs, Cwd, LiteralFile(req[r].path))
               /\ req[r].match.params = NoParams

\* The exact file exists and the recursive search alone would have returned
\* a parameterized page.
C3_Witness ==
    \E r \in Requests :
        /\ Returned(r)
        /\ Walk(fs, Cwd, LiteralFile(req[r].path)) \in fs.files
        /\ LET s == searchPath(fs, listing, PathSegments(req[r].path),
                               <<".", "pages">>, NoParams)
           IN  s.found /\ s.params # NoParams

\* A match that the recursive search produced (the exact path did not exist).
FoundBySearch(r) ==
    Returned(r) /\ req[r].match.found /\ ~Stat(fs, ExactPath(req[r].path))

\* C4 as claimed: a match found by the recursive search binds, for every
\* bracket-named directory of the returned chain, the name between the
\* brackets to the path segment at the same depth, one binding per such
\* directory, and nothing else.
C4_OneBindingPerBracketDir ==
    \A r \in Requests :
        FoundBySearch(r) =>
            LET chain == ChainOf(req[r].match.pagePath)
                segs == PathSegments(req[r].path)
                params == req[r].match.params
                brackets == {i \in 1..Len(chain) : IsBracket(chain[i])}
            IN  /\ Len(chain) = Len(segs)
                /\ Cardinality(DOMAIN params) = Cardinality(brackets)
                /\ DOMAIN params = {SliceInner(chain[i]) : i \in brackets}
                /\ \A i \in brackets : params[SliceInner(chain[i])] = segs[i]

\* C4 as amended: the bindings are those of the bracket-named directories
\* of the returned chain that are not literally named their segment; each
\* name is bound to the segment of the deepest such directory carrying it;
\* there is no other binding (none from an abandoned branch).
C4_BindingsOfReturnedChain ==
    \A r \in Requests :
        FoundBySearch(r) =>
            LET chain == ChainOf(req[r].match.pagePath)
                segs == PathSegments(req[r].path)
                params == req[r].match.params
                binding == {i \in 1..Len(chain) : IsBracket(chain[i]) /\ chain[i] # segs[i]}
            IN  /\ Len(chain) = Len(segs)
                /\ DOMAIN params = {SliceInner(chain[i]) : i \in binding}
                /\ \A i \in binding :
                      (\A j \in binding : SliceInner(chain[j]) = SliceInner(chain[i]) => j <= i)
                          => params[SliceInner(chain[i])] = segs[i]

\* The search entered a bracket directory listed before the one it returned,
\* bound a parameter there and abandoned the branch.
C4_Witness ==
    \E r \in Requests :
        /\ FoundBySearch(r)
        /\ Len(ChainOf(req[r].match.pagePath)) >= 1
        /\ req[r].match.params # NoParams
        /\ \E i, j \in 1..Len(listing) :
              /\ i < j
              /\ listing[j] = ChainOf(req[r].match.pagePath)[1]
              /\ IsBracket(listing[i])
              /\ listing[i] # PathSegments(req[r].path)[1]
              /\ Append(PagesRoot, listing[i]) \in fs.dirs
              /\ SliceInner(listing[i]) \notin DOMAIN req[r].match.params

(***************************************************************************)
(* Properties of the request flows.                                        *)
(***************************************************************************)
\* A chain of directories below the page root, one per path segment, each
\* named as its segment or with a bracket name, the last one holding a
\* regular file index.html.
HasChain(f, segs) ==
    \E chain \in SeqsUpTo(DirNames, Len(segs)) :
        /\ Len(chain) = Len(segs)
        /\ \A i \in 1..Len(chain) : chain[i] = segs[i] \/ IsBracket(chain[i])
        /\ PagesRoot \o chain \in f.dirs
        /\ PagesRoot \o chain \o <<IndexHtml>> \in f.files

\* The call or request r is over.
Over(r) == req[r].pc \in {"returned", "responded", "threw"}

\* C2: for every page tree and path for which no chain of directories
\* matches all segments and ends in a directory holding a content file,
\* findPageWithParams returns null, and renderPage and handlePostRequest
\* answer 404 "Page not found".
C2_NoChainNotFound ==
    \A r \in Requests :
        (Over(r) /\ ~HasChain(fs, PathSegments(req[r].path))) =>
            /\ req[r].kind = "findPage" => ~req[r].match.found
            /\ req[r].kind \in {"GET", "POST"} =>
                   req[r].response = TextResponse(404, "Page not found")

\* The write-config file in the directory of the matched content file.
OwnWriteConfig(f, pagePath) ==
    Walk(f, Cwd, Front(pagePath) \o <<PostYaml>>) \in f.files

\* C5: a POST whose path resolves to a page is answered 405 "Method not
\* allowed" if and only if there is no write-config file post.yaml in the
\* directory that holds the matched page's content file.
C5_DeniedIffNoOwnWriteConfig ==
    \A r \in Requests :
        (req[r].kind = "POST" /\ Over(r) /\ req[r].match.found) =>
            (req[r].response = TextResponse(405, "Method not allowed")
                <=> ~OwnWriteConfig(fs, req[r].match.pagePath))

\* C6: once the permission check has passed, handlePostRequest ends with a
\* 200 response carrying JSON; it does not throw and answers no error status.
C6_WriteFlowAlwaysAnswersJson ==
    \A r \in Requests :
        (/\ req[r].kind = "POST"
         /\ Over(r)
         /\ req[r].match.found
         /\ isPostAllowed(fs, req[r].match.pagePath)) =>
            /\ ~req[r].threw
            /\ req[r].response.status = 200
            /\ req[r].response.kind = "json"

(***************************************************************************)
(* Properties of the pipelines.                                            *)
(***************************************************************************)
PipelineKinds == {"fetchData", "handlePost"}
Returned2(r) == req[r].kind \in PipelineKinds /\ req[r].pc = "pipelineDone"

\* Template expansion or parsing of the call's document fails.
DocumentFails(q) ==
    /\ ~NoContent(q.yamlContent)
    /\ LET expanded == HandlebarsRun(q.yamlContent, Context(q))
       IN  ~expanded.ok \/ ~YamlParse(expanded.value).ok

\* C7: the pipeline never raises: a call of fetchData or handlePost is
\* always at a step of the pipeline or has returned a map; and when template
\* expansion or parsing of the document fails, the returned map is exactly
\* the context.
C7_NeverRaisesDegradesToContext ==
    \A r \in Requests :
        req[r].kind \in PipelineKinds =>
            /\ ~req[r].threw
            /\ req[r].pc \in {"pipeline", "dispatch", "awaiting", "pipelineDone"}
            /\ (req[r].pc = "pipelineDone" /\ DocumentFails(req[r])) =>
                   req[r].data = Context(req[r])

\* A call has returned after its document failed to expand or to parse.
C7_Witness ==
    \E r \in Requests :
        /\ Returned2(r)
        /\ DocumentFails(req[r])
        /\ req[r].data = Context(req[r])
        /\ \E i \in DOMAIN req[r].log : req[r].log[i].level = "error"

\* C8: on every return path of fetchData and handlePost the output's params
\* and query (and formData on write) are those of the request context.
C8_ContextNeverShadowed ==
    \A r \in Requests :
        Returned2(r) =>
            \A k \in DOMAIN Context(req[r]) :
                k \in DOMAIN req[r].data /\ req[r].data[k] = Context(req[r])[k]

\* A call has returned whose document has a top-level field named params
\* and one of whose operations stored a result under the key params.
C8_Witness ==
    \E r \in Requests :
        /\ Returned2(r)
        /\ "params" \in DOMAIN req[r].results
        /\ req[r].results["params"] # req[r].params
        /\ req[r].data["params"] = req[r].params

\* C9: the map returned by fetchData has no key fetch_data and the map
\* returned by handlePost has no key send_data, whatever the document holds
\* under it.
C9_ReservedKeyNeverInOutput ==
    \A r \in Requests :
        Returned2(r) => ReservedKey(req[r]) \notin DOMAIN req[r].data

\* The call went through the merge after the dispatch loop.
Merged(q) ==
    /\ q.pc = "pipelineDone"
    /\ q.log # <<>>
    /\ Last(q.log).message = Msg(q, "Final data after fetch", "Final data after send")

\* The operations whose type is not an entry of the registry.
Unregistered(q) ==
    {i \in 1..Len(q.ops) : PropertyKey(Get(q.ops[i], "type")) \notin q.dataStrategies}

\* C10: for every operation whose type is not an entry of the registry, no
\* handler is invoked, a warn entry is logged, the operation's key is not
\* among the results, and the document's other fields are still merged.
C10_UnknownTypeSkipped ==
    \A r \in Requests :
        (req[r].kind \in PipelineKinds /\ Merged(req[r])) =>
            LET q == req[r]
            IN  /\ \A i \in Unregistered(q) :
                      /\ \A c \in DOMAIN q.calls : q.calls[c].op # i
                      /\ LET key == Get(q.ops[i], "key")
                         IN  (/\ key.t = "str"
                              /\ \A j \in 1..Len(q.ops) :
                                    j # i => Get(q.ops[j], "key") # key)
                                 => key.s \notin DOMAIN q.results
                /\ Cardinality({i \in DOMAIN q.log : q.log[i].level = "warn"})
                       = Cardinality(Unregistered(q))
                /\ \A k \in DOMAIN Spread(q.yamlData) \ {ReservedKey(q)} :
                       k \in DOMAIN q.data

(***************************************************************************)
(* Properties of the dispatcher.                                           *)
(***************************************************************************)
\* The operations whose registered handler threw or rejected.
FailedOps(q) ==
    {q.settled[s].op : s \in {t \in DOMAIN q.settled :
        /\ q.settled[t].outcome.how \in {"throw", "throwNull"}
        /\ PropertyKey(Get(q.ops[q.settled[t].op], "type")) \in q.dataStrategies}}

\* The key of operation i is declared by no other operation.
OwnKey(q, i) ==
    /\ Get(q.ops[i], "key").t = "str"
    /\ \A j \in 1..Len(q.ops) : j # i => Get(q.ops[j], "key") # Get(q.ops[i], "key")

\* Every item under the reserved key is an operation (none is null).
AllOperations(q) == \A i \in 1..Len(q.ops) : q.ops[i].t = "object"

\* C11: when a registered handler throws or rejects, the failure stays in
\* the dispatcher: the run goes on to the merge, an error entry is logged,
\* every operation declared after the failed one is dispatched, the failed
\* operation's key is not among the results, and the document's other
\* fields are in the output.
C11_HandlerFailureIsolated ==
    \A r \in Requests :
        (Returned2(r) /\ AllOperations(req[r]) /\ FailedOps(req[r]) # {}) =>
            LET q == req[r]
            IN  /\ Merged(q)
                /\ q.opIndex = Len(q.ops) + 1
                /\ \E i \in DOMAIN q.log : q.log[i].level = "error"
                /\ \A i \in FailedOps(q) : OwnKey(q, i) => Get(q.ops[i], "key").s \notin DOMAIN q.results
                /\ \A k \in DOMAIN Spread(q.yamlData) \ {ReservedKey(q)} : k \in DOMAIN q.data

\* C12: within one run of fetchData or handlePost the handlers are invoked
\* in the order the operations are declared, each operation's handler at most
\* once (no retry), and one at a time: a handler is started only when every
\* handler started before it has settled.
C12_DeclaredOrderOneAtATime ==
    \A r \in Requests :
        req[r].kind \in PipelineKinds =>
            LET q == req[r]
            IN  /\ \A i, j \in DOMAIN q.calls : i < j => q.calls[i].op < q.calls[j].op
                /\ Len(q.calls) = Len(q.settled) + (IF q.pc = "awaiting" THEN 1 ELSE 0)
                /\ \A s \in DOMAIN q.settled : q.settled[s].op = q.calls[s].op

\* A run has returned in which the first handler failed and a second one
\* was invoked after it.
C12_Witness ==
    \E r \in Requests :
        /\ Returned2(r)
        /\ Len(req[r].calls) = 2
        /\ req[r].settled[1].outcome.how = "throw"
        /\ req[r].calls[1].op < req[r].calls[2].op

\* The value the handler of operation i returned, if it returned one.
ReturnedBy(q, i) ==
    LET hits == {s \in DOMAIN q.settled :
                    q.settled[s].op = i /\ q.settled[s].outcome.how = "return"}
    IN  IF hits = {} THEN Undefined
        ELSE q.settled[CHOOSE s \in hits : TRUE].outcome.value

\* Operations i < j declare the same key, both handlers returned a result,
\* and no operation after j declares that key.
SharedKey(q, i, j) ==
    /\ i < j
    /\ Get(q.ops[i], "key").t = "str"
    /\ Get(q.ops[j], "key") = Get(q.ops[i], "key")
    /\ ReturnedBy(q, i).t = "result"
    /\ ReturnedBy(q, j).t = "result"
    /\ \A k \in (j + 1)..Len(q.ops) : Get(q.ops[k], "key") # Get(q.ops[j], "key")

DefinedResult(v) == v.t \notin {"null", "undefined"}

\* C14: an operation's key is among the merged results only when the
\* operation declares a key and its handler returned a defined result: an
\* operation without a key contributes nothing, and a handler returning
\* null or undefined leaves its key out, as an unknown type does.
C14_KeyOnlyWithDefinedResult ==
    \A r \in Requests :
        (Returned2(r) /\ Merged(req[r])) =>
            LET q == req[r]
            IN  \A k \in DOMAIN q.results :
                    \E i \in 1..Len(q.ops) :
                        /\ Truthy(Get(q.ops[i], "key"))
                        /\ PropertyKey(Get(q.ops[i], "key")) = k
                        /\ DefinedResult(ReturnedBy(q, i))

(***************************************************************************)
(* Properties of the write and read flows.                                 *)
(***************************************************************************)
\* The content type is absent or unknown, or the payload is not of the
\* syntax the content type declares.
UnknownOrMalformed(contentType, body) ==
    IF Includes(contentType, "application/json") THEN body.syntax # "json"
    ELSE IF Includes(contentType, "application/x-www-form-urlencoded")
    THEN body.syntax \notin {"urlencoded", "empty"}
    ELSE IF Includes(contentType, "multipart/form-data") THEN body.syntax # "multipart"
    ELSE TRUE

\* The POST request r passed the permission check and is over.
WriteFlowOver(r) ==
    /\ req[r].kind = "POST"
    /\ Over(r)
    /\ req[r].match.found
    /\ isPostAllowed(fs, req[r].match.pagePath)

\* C15: body decoding never fails: with an absent or unknown content type,
\* or a payload malformed for its declared content type, parseFormData
\* returns the empty map without throwing and the request ends with status
\* 200 and formData = {}.
C15_BodyDecodingNeverFails ==
    \A r \in Requests :
        (WriteFlowOver(r) /\ UnknownOrMalformed(req[r].contentType, req[r].body)) =>
            /\ ~req[r].threw
            /\ req[r].formData = EmptyObj
            /\ req[r].response.status = 200
            /\ req[r].response.kind = "json"
            /\ req[r].response.data["formData"] = EmptyObj

\* Rendering the page content of request q fails.
RenderFails(q, partials) ==
    /\ q.found
    /\ q.pageContent.form # "pureHtml"
    /\ (q.pageContent.form = "badPageTemplate" \/ "layout" \notin partials)

\* C16: in the read flow, once the path has resolved to a page, a failure
\* while loading the page's content or rendering it yields status 500 with
\* the failure message; a content file that resolved but cannot be read
\* gives 500, not 404.
C16_ReadFailureAnswers500 ==
    \A r \in Requests :
        (/\ req[r].kind = "GET"
         /\ Over(r)
         /\ req[r].match.found
         /\ (~IsFile(fs, req[r].match.pagePath) \/ RenderFails(req[r], templates.partials))) =>
            req[r].response = TextResponse(500, "Internal server error")

C19_LiteralBeforeBracket ==
    \A r \in Requests :
        FoundBySearch(r) =>
            LET chain == ChainOf(req[r].match.pagePath)
                segs == PathSegments(req[r].path)
            IN  \A i \in 1..Len(chain) :
                    (IsBracket(chain[i]) /\ chain[i] # segs[i]) =>
                        Append(PagesRoot \o SubSeq(chain, 1, i - 1), segs[i]) \notin fs.dirs

\* C20: findPageWithParams returns a match if and only if there is a chain
\* of directories under the page root, one per non-empty path segment, each
\* literally named the segment or bracket-named, whose last directory holds
\* a content file.
C20_MatchIffChain ==
    \A r \in Requests :
        Returned(r) => (req[r].match.found <=> HasChain(fs, PathSegments(req[r].path)))

(***************************************************************************)
(* Two requests in flight at once: the handler of server.js runs each      *)
(* request as a task of its own, and the tasks interleave at their awaits.  *)
(***************************************************************************)
Requests2 == {"r1", "r2"}

SqliteOp == [type |-> "sqlite", key |-> "k"]

\* The configs of the page a: two operations on reads, one on writes.
ReadDoc ==
    Mapping(<<Entry("title", Scalar("hello")),
              Entry("fetch_data", OpList(<<SqliteOp, SqliteOp>>))>>)
WriteDoc ==
    Mapping(<<Entry("title", Scalar("hello")), Entry("send_data", OpValue(SqliteOp))>>)

\* The request whose awaited handler calls of the operations `ops` hang.
Hanging(q, ops) == [q EXCEPT !.hangs = ops]

InitConcurrent ==
    /\ fs = TreeA(PageTemplate, ReadDoc, WriteDoc, TRUE)
    /\ listing \in {CHOOSE o \in ListingOrders : TRUE}
    /\ templates = NoTemplates
    /\ db = NoDb
    /\ \E first \in {GetRequest(<<"a">>, EmptyObj),
                     PostRequest(<<"a">>, "application/json", DefaultBody)},
          second \in {GetRequest(<<"a">>, EmptyObj),
                      PostRequest(<<"a">>, "application/json", DefaultBody),
                      PostRequest(<<"v">>, "application/json", DefaultBody)},
          ops \in {{}, {1}} :
          req = [r \in Requests2 |-> IF r = "r1" THEN Hanging(first, ops) ELSE second]

\* The steps of the task of request r.
Task(r) ==
    \/ PostResolve(r)
    \/ PostPermission(r)
    \/ PostParseForm(r)
    \/ PostLoadYaml(r)
    \/ PostRespond(r)
    \/ RenderEnsureTemplates(r)
    \/ RenderLoadLayouts(r)
    \/ RenderLoadPartials(r)
    \/ RenderFetchPage(r)
    \/ RenderRespond(r)
    \/ PipelineStart(r)
    \/ Dispatch(r)
    \/ Settle(r)
    \/ Merge(r)

NextConcurrent == \E r \in Requests2 : Task(r)

SpecConcurrent == InitConcurrent /\ [][NextConcurrent]_vars

\* The event loop runs every task that can take a step.
SpecFair == SpecConcurrent /\ \A r \in Requests2 : WF_vars(Task(r))

(***************************************************************************)
(* Properties of concurrent requests.                                      *)
(***************************************************************************)
\* C21: under any interleaving of concurrent requests the load of the
\* templates (loadLayouts and loadPartials) is started at most once.
C21_TemplatesLoadedAtMostOnce == templates.started <= 1

\* The connections getDatabase has handed to request r (0: it threw).
Handed(r) == {req[r].conns[i] : i \in DOMAIN req[r].conns} \ {0}

\* C22: the sqlite connection is a process-wide singleton and the first
\* call wins: at most one connection is ever created, the module keeps
\* holding it, and every call of getDatabase that returns, from whichever
\* request, returns that connection.
C22_OneConnectionFirstCallWins ==
    /\ db.created <= 1
    /\ db.created = 1 => db.conn = 1
    /\ \A r \in DOMAIN req : Handed(r) \subseteq {1}

\* An opening failed, the next call of the same request opened the
\* connection, and the other request got that connection too.
C22_Witness ==
    \E r \in DOMAIN req :
        /\ req[r].conns = <<0, 1>>
        /\ \A o \in DOMAIN req : Handed(o) = {1}

\* The awaited handler call of request r hangs.
AwaitsHanging(r) == req[r].pc = "awaiting" /\ req[r].opIndex \in req[r].hangs

\* Request r has its response.
Answered(r) ==
    req[r].pc = "responded" /\ req[r].response.status \in {404, 405, 200, 500}

PastEnsureTemplates(r) ==
    req[r].kind = "GET" /\ req[r].pc \notin {"call", "loadLayouts", "loadPartials"}

\* C30: under any interleaving of concurrent renderPage calls, a request
\* that is past ensureTemplatesLoaded finds at least one full run of
\* loadLayouts followed by loadPartials finished.
C30_NoRenderBeforeLoadFinished ==
    \A r \in DOMAIN req : PastEnsureTemplates(r) => templates.finished >= 1

\* Two GET requests are past ensureTemplatesLoaded after a single load: one
\* of them found the flag set.
C30_Witness ==
    /\ \A r \in DOMAIN req : PastEnsureTemplates(r)
    /\ Cardinality(DOMAIN req) = 2
    /\ templates.started = 1

(***************************************************************************)
(* Properties of the write flow and of the merge.                          *)
(***************************************************************************)
\* The POST request r was answered with `status`.
AnsweredWith(r, status) ==
    /\ req[r].kind = "POST"
    /\ req[r].pc = "responded"
    /\ req[r].response.status = status

\* The permission check of request r is done.
PermissionChecked(r) ==
    \E i \in DOMAIN req[r].log : req[r].log[i].message = "POST allowed check"

\* C24: handlePostRequest resolves the path, then checks the permission,
\* then decodes the body, then loads the write-config and runs the
\* pipeline; a request answered 404 or 405 has had its body neither read
\* nor decoded, its write-config not loaded and no handler called.
C24_WriteFlowOrder ==
    \A r \in DOMAIN req :
        req[r].kind = "POST" =>
            /\ req[r].bodyRead => req[r].match.found /\ PermissionChecked(r)
            /\ req[r].configLoaded => req[r].bodyRead
            /\ req[r].calls # <<>> => req[r].configLoaded
            /\ (AnsweredWith(r, 404) \/ AnsweredWith(r, 405)) =>
                  /\ ~req[r].bodyRead
                  /\ ~req[r].configLoaded
                  /\ req[r].calls = <<>>

\* A POST to a page without write-config was answered 405.
C24_Witness ==
    \E r \in DOMAIN req :
        /\ AnsweredWith(r, 405)
        /\ req[r].match.found
        /\ ~req[r].bodyRead

\* The text loadPostYaml finds for the page of request r.  (The write-config
\* does not change once the request has loaded it.)
WriteConfigText(r) == loadPostYaml(fs, req[r].match.pagePath)

\* C25: when the write-config passed the permission check but yields no
\* text when it is loaded (removed or unreadable by then, or empty),
\* handlePostRequest logs a warning, calls no handler and answers 200 with
\* the JSON body {params, query: {}, formData} and nothing else.
C25_NoTextStillAnswers200 ==
    \A r \in DOMAIN req :
        (/\ req[r].kind = "POST"
         /\ req[r].configLoaded
         /\ Over(r)
         /\ NoContent(WriteConfigText(r))) =>
            /\ req[r].pc = "responded"
            /\ req[r].response.status = 200
            /\ req[r].response.kind = "json"
            /\ DOMAIN req[r].response.data = {"params", "query", "formData"}
            /\ req[r].response.data["params"] = req[r].params
            /\ req[r].response.data["query"] = EmptyObj
            /\ req[r].response.data["formData"] = req[r].formData
            /\ req[r].calls = <<>>
            /\ \E i \in DOMAIN req[r].log :
                  /\ req[r].log[i].level = "warn"
                  /\ req[r].log[i].message = "No post.yaml found, but POST was allowed"

\* The write-config was there at the permission check and gone at the load,
\* and the request, whose URL has query parameters, was answered.
C25_Witness ==
    \E r \in DOMAIN req :
        /\ req[r].kind = "POST"
        /\ req[r].pc = "responded"
        /\ req[r].configLoaded
        /\ ~isPostAllowed(fs, req[r].match.pagePath)
        /\ req[r].urlQuery # EmptyObj
        /\ req[r].response.status = 200

\* What parseFormData makes of the body of request r.
Decoded(r) == parseFormData(req[r].contentType, req[r].body)

\* C26: for every body of every content type, also a JSON body whose value
\* is null, a scalar or a list, parseFormData returns a map, and
\* handlePostRequest does not fail on what it returned.
C26_FormDataAlwaysMap ==
    \A r \in DOMAIN req :
        (req[r].kind = "POST" /\ req[r].bodyRead /\ Decoded(r).ok) =>
            /\ Decoded(r).value.t = "object"
            /\ ~req[r].threw

\* Operation i contributes nothing: its type is unknown, or its handler
\* failed, or its handler returned undefined.
ContributesNothing(q, i) ==
    \/ LookupStrategy(q.dataStrategies, Get(q.ops[i], "type")).kind = "none"
    \/ \E s \in DOMAIN q.settled :
          /\ q.settled[s].op = i
          /\ q.settled[s].outcome \in {Throws, ThrowsNull, Returns(Undefined)}

\* The names that are both a top-level field of the document and the key
\* of operation i alone, the names of the context apart.
FieldAndKey(q, i) ==
    {n \in DOMAIN Spread(q.yamlData) \ ({ReservedKey(q)} \cup DOMAIN Context(q)) :
        OwnKey(q, i) /\ Get(q.ops[i], "key").s = n}

\* C27: when a top-level field of the document and the key of an operation
\* have the same name, the output holds the handler's result under that name
\* if the handler returned a defined result, and the value of the document's
\* field if the operation contributes nothing.
C27_OperationOverDocumentField ==
    \A r \in DOMAIN req :
        (Returned2(r) /\ AllOperations(req[r])) =>
            LET q == req[r]
            IN  \A i \in 1..Len(q.ops) : \A n \in FieldAndKey(q, i) :
                    /\ ReturnedBy(q, i) # Undefined =>
                          n \in DOMAIN q.data /\ q.data[n] = ReturnedBy(q, i)
                    /\ ContributesNothing(q, i) =>
                          n \in DOMAIN q.data /\ q.data[n] = Spread(q.yamlData)[n]

\* Operations i < j declare the same key and no other operation does, the
\* handler of i returned a defined result and j contributes nothing.
EarlierKept(q, i, j) ==
    /\ i < j
    /\ Get(q.ops[i], "key").t = "str"
    /\ Get(q.ops[j], "key") = Get(q.ops[i], "key")
    /\ \A o \in 1..Len(q.ops) : o \notin {i, j} => Get(q.ops[o], "key") # Get(q.ops[i], "key")
    /\ ReturnedBy(q, i) # Undefined
    /\ ContributesNothing(q, j)

\* C28: when two operations declare the same key, the earlier handler
\* returned a defined result and the later operation contributes nothing
\* (unknown type, handler throws, handler returns undefined), the output
\* keeps the earlier result under that key.
C28_FailedLaterKeepsEarlier ==
    \A r \in DOMAIN req :
        (Returned2(r) /\ AllOperations(req[r])) =>
            LET q == req[r]
            IN  \A i, j \in 1..Len(q.ops) :
                    (EarlierKept(q, i, j) /\ Get(q.ops[i], "key").s \notin DOMAIN Context(q)) =>
                        LET n == Get(q.ops[i], "key").s
                        IN  n \in DOMAIN q.data /\ q.data[n] = ReturnedBy(q, i)

\* The entries of the list that are not objects, and those that are null.
NotObjects(q) == {i \in 1..Len(q.ops) : q.ops[i].t # "object"}
NullEntries(q) == {i \in 1..Len(q.ops) : q.ops[i].t = "null"}

\* The run ended in the catch block: the context alone is returned, and no
\* operation from `bad` on was dispatched.
EndsInContext(q, bad) ==
    /\ q.data = Context(q)
    /\ ~Merged(q)
    /\ \A c \in DOMAIN q.calls : \A i \in bad : q.calls[c].op < i

\* C29 as stated: when an entry of the operation list is not an object, the
\* dispatch loop raises: the pipeline returns exactly the context, without
\* the document's fields and the earlier results, and dispatches no
\* operation declared after the bad entry.
C29_NonObjectEntryRaises ==
    \A r \in DOMAIN req :
        (Returned2(r) /\ NotObjects(req[r]) # {}) =>
            EndsInContext(req[r], NotObjects(req[r]))

\* C29, amended: a null entry makes the dispatch loop raise, with the
\* context alone returned and nothing dispatched from the null entry on; an
\* entry that is a string does not: in a list without null entries where no
\* handler throws a value without message, the run reaches the merge with
\* every entry visited.
C29_NullEntryRaises ==
    \A r \in DOMAIN req :
        Returned2(r) =>
            LET q == req[r]
            IN  /\ NullEntries(q) # {} => EndsInContext(q, NullEntries(q))
                /\ (/\ NotObjects(q) # {}
                    /\ NullEntries(q) = {}
                    /\ \A s \in DOMAIN q.settled : q.settled[s].outcome # ThrowsNull) =>
                      Merged(q) /\ q.opIndex = Len(q.ops) + 1

\* A run has returned the context alone after a handler returned a result
\* and the next entry was null.
C29_Witness ==
    \E r \in DOMAIN req :
        /\ Returned2(r)
        /\ Len(req[r].ops) = 2
        /\ req[r].ops[2].t = "null"
        /\ DOMAIN req[r].results # {}
        /\ req[r].data = Context(req[r])

====
